---- MODULE Spec2Model ----
(***************************************************************************)
(* Verification model of speckmeter: the calibration store and validator   *)
(* (calibration_module.rs, calib.rs), the line-search optimizer            *)
(* (fitting.rs), the intensity sampler (camera_module/my_image.rs) and the *)
(* spectrograph assembler (spectrum_module.rs).                            *)
(*                                                                         *)
(* Numbers.  Normalised image coordinates are integers in hundredths       *)
(* (0.12 is 12).  A diffraction ratio r = wavelength * grating_const / 1e6 *)
(* is kept as the integer wavelength * grating_const (millionths).  An f32 *)
(* that is not a number is the value NaN; NaN compares false with          *)
(* everything and every arithmetic operation on it yields NaN.  The        *)
(* optimizer is run in fixed point: the f32 1.0 is the integer Unit, and   *)
(* products and quotients are rounded toward zero.                         *)
(***************************************************************************)
EXTENDS Integers, Sequences, FiniteSets, TLC

VARIABLES
    lines,          \* CalibrationModule.lines : Vec<(u16, Line)>
    start,          \* CalibrationModule.start : Option<(f32, f32)>
    current_line,   \* CalibrationModule.current_line : Option<Line>
    show_generated, \* CalibrationModule.show_generated : Option<u16>
    spectral,       \* CalibrationModule.spectral : Option<SpectralLines>
    grating_const,  \* CalibrationModule.grating_const
    cal_ret,        \* what the last CalibrationModule call returned
    hung,           \* the UI thread is inside a call that never returns
    sm,             \* the frame of a running fitting::search_minimum call
    px,             \* an Image, the last call on it and what it returned
    sg,             \* an AbsSpectrograph, the last call on it and its outcome
    vl,             \* a calibration set, the validate() call on it and its result
    sv,             \* the SpectrographModule and the outcome of its last frame
    tr,             \* the TracerModule and what its last save wrote
    cm,             \* the CameraModule and the global CAMERA_STREAM
    gl              \* a get_lines call whose model exists: arguments, loop, outcome

calVars == <<lines, start, current_line, show_generated, spectral,
             grating_const, cal_ret, hung>>

appVars == <<sv, tr, cm, gl>>

vars == <<calVars, sm, px, sg, vl, appVars>>

\* a module that is not shown
SvIdle == [op |-> "idle"]
TrIdle == [op |-> "idle"]
CmIdle == [op |-> "idle"]
GlIdle == [pc |-> "idle"]

AppIdle == sv = SvIdle /\ tr = TrIdle /\ cm = CmIdle /\ gl = GlIdle

\* Option<T>: None is the empty tuple, Some(v) the one-element tuple
None == <<>>
Some(v) == <<v>>

\* an f32: a number v (Fin), an infinity with its sign (Inf), or not a
\* number (NaN)
Fin(v) == [k |-> "fin", v |-> v]
Inf(sign) == [k |-> "inf", v |-> sign]
NaN == [k |-> "nan", v |-> 0]
is_nan(x) == x.k = "nan"

(***************************************************************************)
(* Bounds of the model and the inputs the environment chooses from.        *)
(***************************************************************************)
MaxLines == 2

\* pointer positions of the drags the user performs on the calibration image
Positions == {<<50, 0>>, <<52, 100>>, <<12, 90>>, <<10, 10>>}
Drags == {<<<<50, 0>>, <<52, 100>>>>, <<<<12, 90>>, <<10, 10>>>>}

\* what the user types into the wavelength box (parsed as u16)
Wavelengths == {450, 550, 3000}

\* wavelengths asked of get_line (tracer DragValue, f32)
QueryWavelengths == {550, 2500}

\* positions of the grating constant slider (0..=1000)
GratingConsts == {500, 1000}

\* (start, stop, step) asked of get_lines; the values are whole numbers,
\* which f32 adds without rounding
Ranges == {<<380, 383, 1>>, <<380, 384, 2>>, <<750, 750, 1>>}

RatioOne == 1000000

(***************************************************************************)
(* Line                                                                    *)
(***************************************************************************)
Line(s, e) == [start |-> s, end |-> e]

\* make_top_to_bottom that leaves the line as drawn
make_top_to_bottom_as_drawn(line) == line

make_top_to_bottom(line) ==
    IF line.start[2] > line.end[2]
    THEN [start |-> line.end, end |-> line.start]
    ELSE line

(***************************************************************************)
(* Vec helpers: a stable sort by key and is_sorted_by_key                  *)
(***************************************************************************)
RECURSIVE InsertByWavelength(_, _)
InsertByWavelength(sorted, e) ==
    IF sorted = <<>> THEN <<e>>
    ELSE IF Head(sorted)[1] <= e[1]
         THEN <<Head(sorted)>> \o InsertByWavelength(Tail(sorted), e)
         ELSE <<e>> \o sorted

\* Vec::sort_by_key(|(wavelength, _)| *wavelength): stable, ascending
RECURSIVE sort_by_key(_)
sort_by_key(ls) ==
    IF ls = <<>> THEN <<>>
    ELSE InsertByWavelength(sort_by_key(SubSeq(ls, 1, Len(ls) - 1)), ls[Len(ls)])

\* is_sorted_by_key over a sequence of keys: every key <= its successor
is_sorted(keys) == \A i \in 1..(Len(keys) - 1) : keys[i] <= keys[i + 1]

RECURSIVE Sum(_)
Sum(s) == IF s = <<>> THEN 0 ELSE Head(s) + Sum(Tail(s))

(***************************************************************************)
(* CalibrationModule::validate (calibration_module.rs).  It mutates        *)
(* self.lines (canonicalise every line, sort by wavelength) and returns    *)
(* whether the NEGATED x of the start points and of the end points is      *)
(* sorted along the wavelength order.                                      *)
(***************************************************************************)
canonicalized(ls) ==
    [i \in 1..Len(ls) |-> <<ls[i][1], make_top_to_bottom(ls[i][2])>>]

\* self.lines after validate() has run
validated_lines(ls) == sort_by_key(canonicalized(ls))

\* the boolean validate() returns
validate(ls) ==
    LET s == validated_lines(ls) IN
    /\ is_sorted([i \in 1..Len(s) |-> 0 - s[i][2].start[1]])
    /\ is_sorted([i \in 1..Len(s) |-> 0 - s[i][2].end[1]])

\* Line::make_left_to_right of calib.rs
make_left_to_right(line) ==
    IF line.start[1] > line.end[1]
    THEN [start |-> line.end, end |-> line.start]
    ELSE line

\* Calibration::validate of calib.rs, which reads the horizontal_lines
\* setting: self.lines afterwards
Calibration_validated_lines(ls, horizontal_lines) ==
    IF horizontal_lines
    THEN sort_by_key([i \in 1..Len(ls) |-> <<ls[i][1], make_left_to_right(ls[i][2])>>])
    ELSE sort_by_key([i \in 1..Len(ls) |-> <<ls[i][1], make_top_to_bottom(ls[i][2])>>])

\* Calibration::validate of calib.rs: the value returned
Calibration_validate(ls, horizontal_lines) ==
    LET s == Calibration_validated_lines(ls, horizontal_lines) IN
    IF horizontal_lines
    THEN /\ is_sorted([i \in 1..Len(s) |-> s[i][2].start[2]])
         /\ is_sorted([i \in 1..Len(s) |-> s[i][2].end[2]])
    ELSE /\ is_sorted([i \in 1..Len(s) |-> s[i][2].start[1]])
         /\ is_sorted([i \in 1..Len(s) |-> s[i][2].end[1]])

\* the two versions of the calibration in the repository
Modules == {"calibration_module.rs", "calib.rs"}

\* endpoints and wavelengths of the lines handed to validate()
ValPoints == {<<10, 10>>, <<12, 90>>, <<90, 12>>}
ValWavelengths == {450, 550}
ValEntries ==
    {<<wl, Line(pts[1], pts[2])>> :
        wl \in ValWavelengths,
        pts \in {q \in ValPoints \X ValPoints : q[1] # q[2]}}

VlIdle == [module |-> "calibration_module.rs", horizontal_lines |-> FALSE,
           input |-> <<>>, lines |-> <<>>, op |-> "idle", ret |-> FALSE]

\* a calibration with committed lines; horizontal_lines is the setting of
\* calib.rs, and what the user intends where the module has no such field
Calibrations ==
    {[module |-> m, horizontal_lines |-> h, input |-> ls, lines |-> ls,
      op |-> "new", ret |-> FALSE] :
        m \in Modules, h \in BOOLEAN,
        ls \in UNION {[1..n -> ValEntries] : n \in 1..MaxLines}}

\* self.validate()
ValidateCall ==
    /\ vl.op = "new"
    /\ vl' = IF vl.module = "calib.rs"
             THEN [vl EXCEPT !.op = "validate",
                             !.lines = Calibration_validated_lines(vl.lines,
                                                                   vl.horizontal_lines),
                             !.ret = Calibration_validate(vl.lines,
                                                          vl.horizontal_lines)]
             ELSE [vl EXCEPT !.op = "validate",
                             !.lines = validated_lines(vl.lines),
                             !.ret = validate(vl.lines)]
    /\ UNCHANGED <<calVars, sm, px, sg, appVars>>

(***************************************************************************)
(* fitting::lin_reg in exact rational arithmetic.  slope is NaN when all   *)
(* xs are equal (0.0 / 0.0), otherwise the fraction <<numerator,           *)
(* denominator>> with a positive denominator.                              *)
(***************************************************************************)
lin_reg(xs, ys) ==
    LET n   == Len(xs)
        sx  == Sum(xs)
        sy  == Sum(ys)
        sxx == n * Sum([i \in 1..n |-> xs[i] * xs[i]]) - sx * sx
        sxy == n * Sum([i \in 1..n |-> xs[i] * ys[i]]) - sx * sy
    IN  IF sxx = 0
        THEN [slope |-> NaN, y_offset |-> NaN]
        ELSE [slope |-> Fin(<<sxy, sxx>>),
              y_offset |-> Fin(<<sy * sxx - sxy * sx, n * sxx>>)]

\* the projection (y0 + x0 / slope - y_offset) / (slope + 1.0 / slope) of
\* gen_param: NaN when slope is NaN, and when slope is 0.0 (x0 / 0.0 is
\* infinite or NaN, 1.0 / 0.0 is infinite, and inf / inf is NaN); otherwise
\* a finite number, kept as a term
norm_x(x0, y0, reg) ==
    IF is_nan(reg.slope) THEN NaN
    ELSE IF reg.slope.v[1] = 0 THEN NaN
    ELSE Fin(<<"norm_x", x0, y0>>)

\* normed_x(r, parameters): root = sqrt(1 - r*r) is NaN when |r| > 1 and
\* NaN then runs through the whole closed form
normed_x(r, parameters) ==
    IF r > RatioOne \/ r < 0 - RatioOne
    THEN NaN
    ELSE Fin(<<"normed_x", r, parameters>>)

\* FittingProblem::cost is NaN as soon as one term of the fold is NaN
cost_is_nan(data, parameters) ==
    \E i \in 1..Len(data) :
        is_nan(data[i][1]) \/ is_nan(normed_x(data[i][2], parameters))

\* the value of a call that never returns
Diverges == <<"diverges">>

\* fitting::search_minimum on a FittingProblem.  With a NaN cost the
\* comparison that ends the backtracking loop is never true, so the call
\* does not return (see the optimizer section); otherwise the fitted
\* parameters are a function of the data, kept as a term.
fitted_params(data, init_params) ==
    IF cost_is_nan(data, init_params) THEN Diverges
    ELSE <<"search_minimum", data, init_params>>

\* vec![a, b, c] of SpectralLines::new, for the default angle, distance and
\* sensor width
InitParams == <<"tan(17.5*PI/360)", "1.0/0.5", "0.5">>

gen_param(xs, ys, rs, init_param) ==
    LET reg  == lin_reg(xs, ys)
        data == [i \in 1..Len(xs) |-> <<norm_x(xs[i], ys[i], reg), rs[i]>>]
    IN  [line  |-> reg, param |-> fitted_params(data, init_param)]

\* SpectralLines::new: the struct it builds; a parameter vector that is
\* Diverges stands for a search_minimum call that never returns
SpectralLinesNew(measure, gc) ==
    LET n   == Len(measure)
        rs  == [i \in 1..n |-> measure[i][1] * gc]
        x0s == [i \in 1..n |-> measure[i][2].start[1]]
        y0s == [i \in 1..n |-> measure[i][2].start[2]]
        x1s == [i \in 1..n |-> measure[i][2].end[1]]
        y1s == [i \in 1..n |-> measure[i][2].end[2]]
        top == gen_param(x0s, y0s, rs, InitParams)
        bot == gen_param(x1s, y1s, rs, InitParams)
    IN  [grating_const |-> gc,
         top_line |-> top.line, top_param |-> top.param,
         bottom_line |-> bot.line, bottom_param |-> bot.param]

fit_diverges(model) ==
    model.top_param = Diverges \/ model.bottom_param = Diverges

\* Line::normed_x_fraction
normed_x_fraction(line, frac) ==
    IF is_nan(frac) \/ is_nan(line.slope) THEN <<frac, NaN>>
    ELSE <<frac, Fin(<<"y_at", line, frac.v>>)>>

\* SpectralLines::line_with_wavelength
line_with_wavelength(self, lambda) ==
    LET top_normed_x    == normed_x(lambda * self.grating_const, self.top_param)
        bottom_normed_x == normed_x(lambda * self.grating_const, self.bottom_param)
    IN  Line(normed_x_fraction(self.top_line, top_normed_x),
             normed_x_fraction(self.bottom_line, bottom_normed_x))

(***************************************************************************)
(* CalibrationModule: the handlers of the calibration view                 *)
(***************************************************************************)
\* panic: the call ended in the unwrap of a None
Ret(op, ret) == [op |-> op, args |-> <<>>, ret |-> ret, panic |-> FALSE]

CalInit ==
    /\ lines = <<>>
    /\ start = None
    /\ current_line = None
    /\ show_generated = None
    /\ spectral = None
    /\ grating_const = 500
    /\ cal_ret = Ret("new", None)
    /\ hung = FALSE

\* start_line(pos), from main_view when a drag starts and no line is pending
StartLine(pos) ==
    /\ ~hung
    /\ current_line = None
    /\ start' = Some(pos)
    /\ cal_ret' = Ret("start_line", None)
    /\ UNCHANGED <<lines, current_line, show_generated, spectral,
                   grating_const, hung>>

\* end_line(pos) that keeps the pending start
EndLine_keeps_start(pos) ==
    /\ ~hung
    /\ current_line = None
    /\ IF start # None
       THEN current_line' = Some(Line(start[1], pos))
       ELSE UNCHANGED current_line
    /\ cal_ret' = [Ret("end_line", None) EXCEPT !.args = <<pos>>]
    /\ UNCHANGED <<lines, start, show_generated, spectral, grating_const, hung>>

\* end_line(pos)
EndLine(pos) ==
    /\ ~hung
    /\ current_line = None
    /\ IF start # None
       THEN /\ start' = None
            /\ current_line' = Some(Line(start[1], pos))
       ELSE UNCHANGED <<start, current_line>>
    /\ cal_ret' = [Ret("end_line", None) EXCEPT !.args = <<pos>>]
    /\ UNCHANGED <<lines, show_generated, spectral, grating_const, hung>>

\* add_new_wavelength that puts the new entry first
add_new_wavelength_first(ls, cur, wavelength) ==
    IF cur # None THEN <<<<wavelength, cur[1]>>>> \o ls ELSE ls

\* add_new_wavelength(wavelength)
add_new_wavelength(ls, cur, wavelength) ==
    IF cur # None THEN Append(ls, <<wavelength, cur[1]>>) ELSE ls

AddNewWavelength(wavelength) ==
    /\ ~hung
    /\ IF current_line = None THEN TRUE ELSE Len(lines) < MaxLines
    /\ lines' = add_new_wavelength(lines, current_line, wavelength)
    /\ current_line' = None
    /\ cal_ret' = [Ret("add_new_wavelength", None) EXCEPT !.args = <<wavelength>>]
    /\ UNCHANGED <<start, show_generated, spectral, grating_const, hung>>

\* the "Discard Line" button of the wavelength window
DiscardLine ==
    /\ ~hung
    /\ current_line # None
    /\ current_line' = None
    /\ cal_ret' = Ret("discard_line", None)
    /\ UNCHANGED <<lines, start, show_generated, spectral, grating_const, hung>>

\* generate_regression that returns Some(()) without storing the model
generate_regression_unstored(self_lines, self_spectral, gc) ==
    LET model == SpectralLinesNew(validated_lines(self_lines), gc) IN
    IF validate(self_lines) /\ Len(self_lines) > 1
    THEN IF fit_diverges(model)
         THEN [lines |-> validated_lines(self_lines), spectral |-> self_spectral,
               ret |-> Diverges]
         ELSE [lines |-> validated_lines(self_lines), spectral |-> self_spectral,
               ret |-> Some("()")]
    ELSE [lines |-> validated_lines(self_lines), spectral |-> self_spectral,
          ret |-> None]

\* generate_regression(): validate() rewrites self.lines whatever it returns;
\* a fit whose optimizer never returns leaves the caller inside the call.
\* SpectralLines::new ends in Some(Self { .. }) on every path.
generate_regression(self_lines, self_spectral, gc) ==
    LET model == SpectralLinesNew(validated_lines(self_lines), gc) IN
    IF validate(self_lines) /\ Len(self_lines) > 1
    THEN IF fit_diverges(model)
         THEN [lines |-> validated_lines(self_lines), spectral |-> self_spectral,
               ret |-> Diverges]
         ELSE [lines |-> validated_lines(self_lines), spectral |-> Some(model),
               ret |-> Some("()")]
    ELSE [lines |-> validated_lines(self_lines), spectral |-> self_spectral,
          ret |-> None]

\* side_panel: the "generate regression" button, shown while spectral is None
GenerateRegression ==
    /\ ~hung
    /\ spectral = None
    /\ LET r == generate_regression(lines, spectral, grating_const) IN
       /\ lines' = r.lines
       /\ spectral' = r.spectral
       /\ hung' = (r.ret = Diverges)
       /\ show_generated' = IF r.ret = Diverges THEN None ELSE Some(10)
       /\ cal_ret' = Ret("generate_regression", r.ret)
    /\ UNCHANGED <<start, current_line, grating_const>>

\* side_panel in a frame without a click: show_generated is reset while
\* there is no model
SidePanelFrame ==
    /\ ~hung
    /\ spectral = None
    /\ show_generated # None
    /\ show_generated' = None
    /\ cal_ret' = Ret("side_panel", None)
    /\ UNCHANGED <<lines, start, current_line, spectral, grating_const, hung>>

\* side_panel: "show generated lines", shown while spectral is Some and
\* show_generated is None
ShowGeneratedLines ==
    /\ ~hung
    /\ spectral # None
    /\ show_generated = None
    /\ show_generated' = Some(10)
    /\ cal_ret' = Ret("show_generated_lines", None)
    /\ UNCHANGED <<lines, start, current_line, spectral, grating_const, hung>>

\* side_panel: "delete regression", shown while spectral and show_generated
\* are Some
DeleteRegression ==
    /\ ~hung
    /\ spectral # None
    /\ show_generated # None
    /\ spectral' = None
    /\ cal_ret' = Ret("delete_regression", None)
    /\ UNCHANGED <<lines, start, current_line, show_generated, grating_const,
                   hung>>

\* "discard all lines" that keeps the pending line state
DiscardAllLines_keeps_pending ==
    /\ ~hung
    /\ lines' = <<>>
    /\ show_generated' = IF spectral = None THEN None ELSE show_generated
    /\ cal_ret' = Ret("discard_all_lines", None)
    /\ UNCHANGED <<start, current_line, spectral, grating_const, hung>>

\* side_panel: "discard all lines"
DiscardAllLines ==
    /\ ~hung
    /\ lines' = <<>>
    /\ start' = None
    /\ current_line' = None
    /\ show_generated' = IF spectral = None THEN None ELSE show_generated
    /\ cal_ret' = Ret("discard_all_lines", None)
    /\ UNCHANGED <<spectral, grating_const, hung>>

\* side_panel: the grating constant slider
SetGratingConst(gc) ==
    /\ ~hung
    /\ gc # grating_const
    /\ grating_const' = gc
    /\ show_generated' = IF spectral = None THEN None ELSE show_generated
    /\ cal_ret' = Ret("set_grating_const", None)
    /\ UNCHANGED <<lines, start, current_line, spectral, hung>>

\* get_line(wavelength): fit lazily, then query the model
GetLine(wavelength) ==
    /\ ~hung
    /\ LET r == IF spectral = None
                THEN generate_regression(lines, spectral, grating_const)
                ELSE [lines |-> lines, spectral |-> spectral, ret |-> Some("()")]
       IN
       /\ lines' = r.lines
       /\ spectral' = r.spectral
       /\ hung' = (r.ret = Diverges)
       /\ cal_ret' =
            [op |-> "get_line", args |-> <<wavelength>>,
             ret |-> IF r.ret = Some("()") /\ r.spectral # None
                     THEN Some(line_with_wavelength(r.spectral[1], wavelength))
                     ELSE None,
             panic |-> (r.ret = Some("()") /\ r.spectral = None)]
    /\ UNCHANGED <<start, current_line, show_generated, grating_const>>

\* the wavelengths the loop of get_lines visits:
\*   current_wl = start; while current_wl < stop { push; current_wl += step }
RECURSIVE sampled_wavelengths(_, _, _)
sampled_wavelengths(current_wl, stop, step) ==
    IF current_wl < stop
    THEN <<current_wl>> \o sampled_wavelengths(current_wl + step, stop, step)
    ELSE <<>>

\* get_lines(start, stop, step): fit lazily, then one line per visited
\* wavelength
GetLines(from, stop, step) ==
    /\ ~hung
    /\ step > 0
    /\ LET r == IF spectral = None
                THEN generate_regression(lines, spectral, grating_const)
                ELSE [lines |-> lines, spectral |-> spectral, ret |-> Some("()")]
           wls == sampled_wavelengths(from, stop, step)
       IN
       /\ lines' = r.lines
       /\ spectral' = r.spectral
       /\ hung' = (r.ret = Diverges)
       /\ cal_ret' =
            [op |-> "get_lines", args |-> <<from, stop, step>>,
             ret |-> IF r.ret = Some("()") /\ r.spectral # None
                     THEN Some([i \in 1..Len(wls) |->
                                  line_with_wavelength(r.spectral[1], wls[i])])
                     ELSE None,
             panic |-> (r.ret = Some("()") /\ r.spectral = None /\ Len(wls) > 0)]
    /\ UNCHANGED <<start, current_line, show_generated, grating_const>>

CalNext ==
    \/ \E pos \in Positions : StartLine(pos)
    \/ \E pos \in Positions :
          /\ IF start = None THEN TRUE ELSE <<start[1], pos>> \in Drags
          /\ EndLine(pos)
    \/ \E wavelength \in Wavelengths : AddNewWavelength(wavelength)
    \/ DiscardLine
    \/ GenerateRegression
    \/ ShowGeneratedLines
    \/ DeleteRegression
    \/ DiscardAllLines
    \/ \E gc \in GratingConsts : SetGratingConst(gc)
    \/ SidePanelFrame
    \/ \E wavelength \in QueryWavelengths : GetLine(wavelength)
    \/ \E range \in Ranges : GetLines(range[1], range[2], range[3])

(***************************************************************************)
(* camera_module/my_image.rs: Image.  data holds 3 bytes per pixel, row by *)
(* row.  Pixel coordinates on the way into the rasterizer are kept in      *)
(* quarters of a pixel.                                                    *)
(***************************************************************************)
Quarter == 2 + 2

\* the byte at 0-based index i of the test image: every byte is different,
\* so a read of another pixel's bytes shows
byte_at(i) == i + 1

NewImage(width, height) ==
    [width |-> width, height |-> height,
     data |-> [i \in 1..(3 * width * height) |-> byte_at(i - 1)]]

\* image sizes
ImageSizes == {<<1, 2>>, <<2, 2>>, <<2, 3>>}

\* the two build profiles: with overflow checks (debug) an overflowing usize
\* operation panics, without (release) it wraps
Builds == {"debug", "release"}

Outcome(k, v) == [k |-> k, v |-> v]
OptNone == Outcome("none", <<>>)
Panicked == Outcome("panic", <<>>)

\* Vec<u8>::get(index) for an index that did not wrap
data_get(self, index) ==
    IF index >= 0 /\ index < Len(self.data) THEN Some(self.data[index + 1]) ELSE None

\* Image::get(x as usize, y as usize) for isize x and y.  A negative isize
\* cast to usize is 2^64 + x: larger than any width, and as y it overflows
\* y * self.width.  The wrapped index 3 * (y * width + x) mod 2^64 lies in
\* the data only when the true value is 0 <= index < len.
get(self, x, y, build) ==
    IF x < 0 \/ self.width < x THEN OptNone
    ELSE IF y < 0 /\ build = "debug" THEN Panicked
    ELSE LET index == 3 * (y * self.width + x)
             r == data_get(self, index)
             g == data_get(self, index + 1)
             b == data_get(self, index + 2)
         IN  IF r = None \/ g = None \/ b = None THEN OptNone
             ELSE Outcome("some", <<r[1], g[1], b[1]>>)

\* f32::round as isize, on quarters: half away from zero
round_q(q) ==
    IF q >= 0 THEN (q + 2) \div Quarter ELSE 0 - ((0 - q + 2) \div Quarter)

\* XiaolinWu::<f32, isize>::new(start, end) for a vertical segment at x
\* (quarters, x >= 0 or a whole pixel) from y0 to y1: one step per row from
\* round(min) to round(max); per step the pixel (floor x, row) with weight
\* 1 - fpart and, when fpart > 0, the pixel (floor x + 1, row) with weight
\* fpart.  Weights are in quarters.
RECURSIVE xiaolin_rows(_, _, _)
xiaolin_rows(x, row, last) ==
    IF row > last THEN <<>>
    ELSE LET fpart == x % Quarter
             fl == x \div Quarter
         IN  (IF fpart > 0
              THEN << <<fl, row, Quarter - fpart>>, <<fl + 1, row, fpart>> >>
              ELSE << <<fl, row, Quarter>> >>)
             \o xiaolin_rows(x, row + 1, last)

xiaolin_wu(x, y0, y1) ==
    xiaolin_rows(x, round_q(IF y0 <= y1 THEN y0 ELSE y1),
                    round_q(IF y0 >= y1 THEN y0 ELSE y1))

\* rgb_lightness(r, g, b) * (255 * 3)
rgb_lightness(r, g, b) == r + g + b

\* the loop of read_line_lightness over the rasterized pixels: total (times
\* 255 * 3 * Quarter), total_weights (times Quarter), and the pixels that
\* were added
RECURSIVE lightness_fold(_, _, _, _)
lightness_fold(self, pixels, n, build) ==
    IF n = 0 THEN [k |-> "ok", total |-> 0, total_weights |-> 0, used |-> <<>>]
    ELSE LET acc == lightness_fold(self, pixels, n - 1, build)
             p == get(self, pixels[n][1], pixels[n][2], build)
         IN  IF acc.k = "panic" \/ p.k = "panic"
             THEN [acc EXCEPT !.k = "panic"]
             ELSE IF p.k = "some"
             THEN [k |-> "ok",
                   total |-> acc.total
                             + rgb_lightness(p.v[1], p.v[2], p.v[3]) * pixels[n][3],
                   total_weights |-> acc.total_weights + pixels[n][3],
                   used |-> Append(acc.used, pixels[n])]
             ELSE acc

\* a vertical line in normalised coordinates, in units of 1 / Quarter
VLine(x, y0, y1) == Line(<<x, y0>>, <<x, y1>>)

\* read_line_lightness(line): total / total_weights, which is 0.0 / 0.0
\* when no pixel was added
read_line_lightness(self, line, build) ==
    LET pixels == xiaolin_wu(line.start[1] * self.width,
                             line.start[2] * self.height,
                             line.end[2] * self.height)
        acc == lightness_fold(self, pixels, Len(pixels), build)
    IN  IF acc.k = "panic" THEN [k |-> "panic", v |-> NaN, used |-> acc.used]
        ELSE [k |-> "ok",
              v |-> IF acc.total_weights = 0 THEN NaN
                    ELSE Fin(<<acc.total, 765 * acc.total_weights>>),
              used |-> acc.used]

PxIdle == [img |-> NewImage(1, 1), build |-> "release", op |-> "idle",
           args |-> <<>>, ret |-> <<>>]

\* x positions (normalised quarters) and y extents of the sampled lines
LineXs == {0 - 4, 0, 1, 2, 4, 8}
LineYs == {<<0, 4>>, <<4, 0>>, <<0 - 4, 2>>, <<6, 8>>}

\* pixel coordinates handed to Image::get
PixelCoords == (0 - 1)..3

\* a panic ends the thread
img_alive == IF px.op = "new" THEN TRUE ELSE px.ret.k # "panic"

ImgGet(x, y) ==
    /\ img_alive
    /\ px' = [px EXCEPT !.op = "get", !.args = <<x, y>>,
                        !.ret = get(px.img, x, y, px.build)]
    /\ UNCHANGED <<calVars, sm, sg, vl, appVars>>

ImgReadLineLightness(line) ==
    /\ img_alive
    /\ px' = [px EXCEPT !.op = "read_line_lightness", !.args = <<line>>,
                        !.ret = read_line_lightness(px.img, line, px.build)]
    /\ UNCHANGED <<calVars, sm, sg, vl, appVars>>

\* a calibration as from_img sees it: without a model that can be fitted
\* (get_lines returns None), or a model that maps the wavelength wl to the
\* vertical line at x0 + dx * (wl - 380)
Calibs == {None} \cup {Some([x0 |-> x0, dx |-> dx, ys |-> ys]) :
                          x0 \in {0 - 4, 0}, dx \in {1, 2}, ys \in {<<0, 4>>, <<0 - 2, 4>>}}

calib_line(calib, wl) ==
    VLine(calib.x0 + calib.dx * (wl - 380), calib.ys[1], calib.ys[2])

\* calib.get_lines(start, stop, step) on such a calibration
calib_get_lines(calib, from, stop, step) ==
    IF calib = None THEN None
    ELSE LET wls == sampled_wavelengths(from, stop, step) IN
         Some([i \in 1..Len(wls) |-> calib_line(calib[1], wls[i])])

\* AbsSpectrograph::from_img(img, calib, start, stop, step)
from_img(img, calib, from, stop, step, build) ==
    LET ls == calib_get_lines(calib, from, stop, step) IN
    IF ls = None THEN OptNone
    ELSE LET reads == [i \in 1..Len(ls[1]) |->
                         read_line_lightness(img, ls[1][i], build)]
         IN  IF \E i \in 1..Len(reads) : reads[i].k = "panic" THEN Panicked
             ELSE Outcome("some",
                          [start |-> from, stop |-> stop, step |-> step,
                           values |-> [i \in 1..Len(reads) |-> reads[i].v]])

ImgFromImg(calib, from, stop, step) ==
    /\ img_alive
    /\ step > 0
    /\ px' = [px EXCEPT !.op = "from_img", !.args = <<calib, from, stop, step>>,
                        !.ret = from_img(px.img, calib, from, stop, step, px.build)]
    /\ UNCHANGED <<calVars, sm, sg, vl, appVars>>

ImgNext ==
    \/ \E x \in PixelCoords, y \in PixelCoords : ImgGet(x, y)
    \/ \E x \in LineXs, ys \in LineYs : ImgReadLineLightness(VLine(x, ys[1], ys[2]))
    \/ \E calib \in Calibs, range \in Ranges :
          ImgFromImg(calib, range[1], range[2], range[3])

(***************************************************************************)
(* f32 arithmetic in fixed point                                           *)
(***************************************************************************)
Unit == 10 * 10

\* integer division rounded toward zero
tdiv(a, b) ==
    IF (a >= 0) = (b > 0) THEN (IF a >= 0 THEN a ELSE 0 - a) \div (IF b > 0 THEN b ELSE 0 - b)
    ELSE 0 - ((IF a >= 0 THEN a ELSE 0 - a) \div (IF b > 0 THEN b ELSE 0 - b))

sgn(v) == IF v < 0 THEN 0 - 1 ELSE 1

fneg(a) == [a EXCEPT !.v = 0 - a.v]

fadd(a, b) ==
    IF is_nan(a) \/ is_nan(b) THEN NaN
    ELSE IF a.k = "inf" /\ b.k = "inf" THEN (IF a.v = b.v THEN a ELSE NaN)
    ELSE IF a.k = "inf" THEN a
    ELSE IF b.k = "inf" THEN b
    ELSE Fin(a.v + b.v)

fsub(a, b) == fadd(a, fneg(b))

fmul(a, b) ==
    IF is_nan(a) \/ is_nan(b) THEN NaN
    ELSE IF a.k = "inf" \/ b.k = "inf"
         THEN (IF a.v = 0 \/ b.v = 0 THEN NaN ELSE Inf(sgn(a.v) * sgn(b.v)))
    ELSE Fin(tdiv(a.v * b.v, Unit))

fdiv(a, b) ==
    IF is_nan(a) \/ is_nan(b) THEN NaN
    ELSE IF a.k = "inf" THEN (IF b.k = "inf" THEN NaN ELSE Inf(sgn(a.v) * sgn(b.v)))
    ELSE IF b.k = "inf" THEN Fin(0)
    ELSE IF b.v = 0 THEN (IF a.v = 0 THEN NaN ELSE Inf(sgn(a.v)))
    ELSE Fin(tdiv(a.v * Unit, b.v))

\* a >= b: false as soon as one side is NaN
fge(a, b) ==
    /\ ~is_nan(a)
    /\ ~is_nan(b)
    /\ IF a.k = "inf" THEN a.v = 1 \/ (b.k = "inf" /\ b.v = 0 - 1)
       ELSE IF b.k = "inf" THEN b.v = 0 - 1
       ELSE a.v >= b.v

\* f32::sqrt: NaN for a negative number
fsqrt(a) ==
    IF is_nan(a) THEN NaN
    ELSE IF a.v < 0 THEN NaN
    ELSE IF a.k = "inf" THEN a
    ELSE Fin(CHOOSE s \in 0..(a.v * Unit) :
                s * s <= a.v * Unit /\ (s + 1) * (s + 1) > a.v * Unit)

(***************************************************************************)
(* fitting.rs: vectors                                                     *)
(***************************************************************************)
Min(a, b) == IF a <= b THEN a ELSE b

\* x1.iter().zip(x2.iter()).map(|(x1, x2)| x1 + x2)
add(x1, x2) == [i \in 1..Min(Len(x1), Len(x2)) |-> fadd(x1[i], x2[i])]

scale(x, factor) == [i \in 1..Len(x) |-> fmul(x[i], factor)]

RECURSIVE fsum(_)
fsum(x) == IF x = <<>> THEN Fin(0)
           ELSE fadd(fsum(SubSeq(x, 1, Len(x) - 1)), x[Len(x)])

inner_product(x1, x2) ==
    fsum([i \in 1..Min(Len(x1), Len(x2)) |-> fmul(x1[i], x2[i])])

(***************************************************************************)
(* FittingProblem (calibration_module.rs): data is a sequence of           *)
(* <<projected x, ratio>>, parameters the vector <<a, b, c>>               *)
(***************************************************************************)
\* normed_x on fixed-point numbers
normed_x_f(r, parameters) ==
    LET a == parameters[1]
        b == parameters[2]
        c == parameters[3]
        root == fsqrt(fsub(Fin(Unit), fmul(r, r)))
    IN  fadd(fmul(b, fdiv(fsub(fmul(a, root), r), fadd(root, fmul(a, r)))), c)

\* impl Cost for FittingProblem
RECURSIVE cost_fold(_, _, _)
cost_fold(data, parameters, n) ==
    IF n = 0 THEN Fin(0)
    ELSE LET d == fsub(normed_x_f(data[n][2], parameters), data[n][1])
         IN  fadd(cost_fold(data, parameters, n - 1), fmul(d, d))

cost(data, parameters) ==
    fdiv(cost_fold(data, parameters, Len(data)), Fin(Len(data) * Unit))

\* impl Gradient for FittingProblem
RECURSIVE gradient_fold(_, _, _)
gradient_fold(data, parameters, n) ==
    IF n = 0 THEN <<Fin(0), Fin(0), Fin(0)>>
    ELSE LET acc == gradient_fold(data, parameters, n - 1)
             a == parameters[1]
             b == parameters[2]
             x == data[n][1]
             r == data[n][2]
             prefactor == fmul(Fin(2 * Unit), fsub(normed_x_f(r, parameters), x))
             root == fsqrt(fsub(Fin(Unit), fmul(r, r)))
             den == fadd(root, fmul(a, r))
             num == fsub(fmul(a, root), r)
         IN  <<fadd(acc[1],
                    fdiv(fmul(fmul(prefactor, b),
                              fsub(fmul(root, den), fmul(num, r))),
                         fmul(den, den))),
               fadd(acc[2], fdiv(fmul(prefactor, num), den)),
               fadd(acc[3], prefactor)>>

gradient(data, parameters) ==
    scale(gradient_fold(data, parameters, Len(data)),
          fdiv(Fin(Unit), Fin(Len(data) * Unit)))

(***************************************************************************)
(* fitting::search_minimum, one step of the model per evaluation of the    *)
(* for header ("for") and per turn of the backtracking loop ("loop")       *)
(***************************************************************************)
MaxIterations == 2

\* control factors c = 0.5 and tau = 0.8
CtlC == Fin(5 * 10)
CtlTau == Fin(8 * 10)

\* the data of the problems the optimizer is run on: a two-line fit, a fit
\* that is already exact, and a fit holding a ratio of 1.5
SearchData ==
    { << <<Fin(30), Fin(22)>>, <<Fin(20), Fin(27)>> >>,
      << <<Fin(34), Fin(22)>>, <<Fin(24), Fin(27)>> >>,
      << <<Fin(30), Fin(22)>>, <<Fin(20), Fin(150)>> >> }

\* initial parameter vectors: a = tan(17.5 * PI / 360), b = 1.0 / 0.5,
\* c = 0.5, and a second guess
SearchParams ==
    { <<Fin(15), Fin(200), Fin(50)>>, <<Fin(100), Fin(100), Fin(0)>> }

\* initial step sizes (gen_param passes 0.1)
StepSizes == {Fin(10), Fin(100)}

SmIdle == [pc |-> "idle"]

\* the call search_minimum(problem, initial_params, max_iterations,
\* initial_step_size) on entry
SmEntry(data, initial_params, max_iterations, initial_step_size) ==
    [pc |-> "for",
     data |-> data,
     max_iterations |-> max_iterations,
     i |-> 0,
     initial_params |-> initial_params,
     parameters |-> initial_params,
     initial_step_size |-> initial_step_size,
     last_step_size |-> initial_step_size,
     gradient |-> <<>>,
     t |-> Fin(0),
     current_alpha |-> initial_step_size]

\* the head of the for loop with a return as soon as the gradient vanishes
SmFor_converged ==
    /\ sm.pc = "for"
    /\ LET g == gradient(sm.data, sm.parameters) IN
       IF sm.i < sm.max_iterations /\ inner_product(g, g) # Fin(0)
       THEN sm' = [sm EXCEPT !.pc = "loop",
                             !.gradient = g,
                             !.t = fmul(fneg(CtlC), inner_product(g, g)),
                             !.current_alpha = sm.last_step_size]
       ELSE sm' = [sm EXCEPT !.pc = "returned"]
    /\ UNCHANGED <<calVars, px, sg, vl, appVars>>

\* for i in 0..max_iterations { gradient, t, current_alpha } / return
SmFor ==
    /\ sm.pc = "for"
    /\ IF sm.i < sm.max_iterations
       THEN LET g == gradient(sm.data, sm.parameters) IN
            sm' = [sm EXCEPT !.pc = "loop",
                             !.gradient = g,
                             !.t = fmul(fneg(CtlC), inner_product(g, g)),
                             !.current_alpha = sm.last_step_size]
       ELSE sm' = [sm EXCEPT !.pc = "returned"]
    /\ UNCHANGED <<calVars, px, sg, vl, appVars>>

\* the condition of the backtracking loop
sufficient_decrease(data, parameters, g, current_alpha, t) ==
    fge(fsub(cost(data, parameters),
             cost(data, add(parameters, scale(g, fneg(current_alpha))))),
        fmul(current_alpha, t))

\* the break of the loop without "last_step_size = step_size"
SmLoopBreak_forgets_step ==
    /\ sm.pc = "loop"
    /\ sufficient_decrease(sm.data, sm.parameters, sm.gradient,
                           sm.current_alpha, sm.t)
    /\ sm' = [sm EXCEPT !.pc = "for",
                        !.parameters = add(sm.parameters,
                                           scale(sm.gradient, fneg(sm.current_alpha))),
                        !.i = sm.i + 1]
    /\ UNCHANGED <<calVars, px, sg, vl, appVars>>

\* loop { if cond { break current_alpha }; current_alpha *= tau }, then the
\* update of parameters and last_step_size
SmLoopBreak ==
    /\ sm.pc = "loop"
    /\ sufficient_decrease(sm.data, sm.parameters, sm.gradient,
                           sm.current_alpha, sm.t)
    /\ sm' = [sm EXCEPT !.pc = "for",
                        !.parameters = add(sm.parameters,
                                           scale(sm.gradient, fneg(sm.current_alpha))),
                        !.last_step_size = sm.current_alpha,
                        !.i = sm.i + 1]
    /\ UNCHANGED <<calVars, px, sg, vl, appVars>>

SmLoopShrink ==
    /\ sm.pc = "loop"
    /\ ~sufficient_decrease(sm.data, sm.parameters, sm.gradient,
                            sm.current_alpha, sm.t)
    /\ sm' = [sm EXCEPT !.current_alpha = fmul(sm.current_alpha, CtlTau)]
    /\ UNCHANGED <<calVars, px, sg, vl, appVars>>

SearchNext == SmFor \/ SmLoopBreak \/ SmLoopShrink

(***************************************************************************)
(* spectrum_module.rs: AbsSpectrograph and RelativeSpectrum.  start, stop  *)
(* and step are whole numbers; the values are f32 in fixed point.          *)
(***************************************************************************)
Graph(from, stop, step, values) ==
    [start |-> from, stop |-> stop, step |-> step, values |-> values]

\* zip(..).map(|(x1, x2)| x1 + x2): as long as the shorter slice
zip_add(xs, ys) ==
    [i \in 1..Min(Len(xs), Len(ys)) |-> fadd(xs[i], ys[i])]

\* zip(..).map(|(val, refer)| val / refer)
zip_div(xs, ys) ==
    [i \in 1..Min(Len(xs), Len(ys)) |-> fdiv(xs[i], ys[i])]

\* AbsSpectrograph::add without its three assertions
AbsSpectrograph_add_unchecked(self, other) ==
    [self |-> [self EXCEPT !.values = zip_add(self.values, other.values)],
     ret |-> Outcome("ok", <<>>)]

\* AbsSpectrograph::add(&mut self, other): the receiver afterwards and the
\* outcome of the call
AbsSpectrograph_add(self, other) ==
    IF self.start # other.start \/ self.step # other.step \/ self.stop # other.stop
    THEN [self |-> self, ret |-> Panicked]
    ELSE [self |-> [self EXCEPT !.values = zip_add(self.values, other.values)],
          ret |-> Outcome("ok", <<>>)]

AbsSpectrograph_scale(self, factor) ==
    [self EXCEPT !.values = [i \in 1..Len(self.values) |-> fmul(self.values[i], factor)]]

compare(self, other) ==
    self.start = other.start /\ self.stop = other.stop /\ self.step = other.step

\* RelativeSpectrum::new(values, reference)
RelativeSpectrum_new(values, reference) ==
    IF ~compare(values, reference) THEN Panicked
    ELSE Outcome("ok", [start |-> values.start, step |-> values.step,
                        values |-> zip_div(values.values, reference.values)])

\* the loop of average_spectrograph over &graphs[1..]
RECURSIVE add_all(_, _, _)
add_all(graph1, graphs, n) ==
    IF n <= 1 THEN [self |-> graph1, ret |-> Outcome("ok", <<>>)]
    ELSE LET acc == add_all(graph1, graphs, n - 1) IN
         IF acc.ret.k = "panic" THEN acc
         ELSE AbsSpectrograph_add(acc.self, graphs[n])

\* average_spectrograph without the final graph1.scale(factor)
average_spectrograph_unscaled(graphs) ==
    IF Len(graphs) = 0 THEN Panicked
    ELSE LET sum == add_all(graphs[1], graphs, Len(graphs))
         IN  IF sum.ret.k = "panic" THEN Panicked
             ELSE Outcome("ok", sum.self)

\* average_spectrograph(graphs): graphs[0] panics on an empty Vec
average_spectrograph(graphs) ==
    IF Len(graphs) = 0 THEN Panicked
    ELSE LET factor == fdiv(Fin(Unit), Fin(Len(graphs) * Unit))
             sum == add_all(graphs[1], graphs, Len(graphs))
         IN  IF sum.ret.k = "panic" THEN Panicked
             ELSE Outcome("ok", AbsSpectrograph_scale(sum.self, factor))

\* csv::write_f32_csv(path, keys, values, header): the table the file holds,
\* one row per index, the columns in the order the Vecs were given
write_f32_csv(keys, values) ==
    [keys |-> keys,
     rows |-> [i \in 1..Len(values[1]) |-> [c \in 1..Len(values) |-> values[c][i]]]]

\* write_to_csv with the two Vecs handed over in the opposite order
write_to_csv_intensity_first(self) ==
    LET wavelengths == [x \in 1..Len(self.values) |->
                          Fin(((x - 1) * self.step + self.start) * Unit)]
    IN  write_f32_csv(<<"wavelengths [nm]", "intensity">>,
                      <<self.values, wavelengths>>)

\* AbsSpectrograph::write_to_csv(&self, path, header): x runs over
\* 0..values.len(), the index of the Vec, one less than the index here
write_to_csv(self) ==
    LET wavelengths == [x \in 1..Len(self.values) |->
                          Fin(((x - 1) * self.step + self.start) * Unit)]
    IN  write_f32_csv(<<"wavelengths [nm]", "intensity">>,
                      <<wavelengths, self.values>>)

\* RelativeSpectrum::write_to_csv(&self, path, header)
RelativeSpectrum_write_to_csv(self) ==
    LET wavelengths == [x \in 1..Len(self.values) |->
                          Fin(((x - 1) * self.step + self.start) * Unit)]
    IN  write_f32_csv(<<"wavelengths [nm]", "intensity">>,
                      <<wavelengths, self.values>>)

\* the (start, stop, step) of the spectrographs
GraphRanges == {<<380, 383, 1>>, <<380, 384, 2>>, <<381, 383, 1>>}

\* the spectrographs: one value per sampled wavelength, a flat and a rising
\* spectrum for every range
Graphs ==
    UNION {{Graph(r[1], r[2], r[3],
                  [i \in 1..Len(sampled_wavelengths(r[1], r[2], r[3])) |-> Fin(Unit)]),
            Graph(r[1], r[2], r[3],
                  [i \in 1..Len(sampled_wavelengths(r[1], r[2], r[3])) |->
                     Fin(i * (Unit \div 2))])} :
           r \in GraphRanges}

\* the largest sample (hundredths) a spectrograph is still added to
MaxSample == 300

\* the longest Vec handed to average_spectrograph
MaxGraphs == 3

GraphLists == UNION {[1..n -> Graphs] : n \in 0..MaxGraphs}

SgIdle == [self |-> Graph(380, 380, 1, <<>>), op |-> "idle", args |-> <<>>,
           ret |-> Outcome("ok", <<>>)]

GraphAdd(other) ==
    /\ sg.ret.k # "panic"
    /\ \A i \in 1..Len(sg.self.values) : sg.self.values[i].v <= MaxSample
    /\ LET r == AbsSpectrograph_add(sg.self, other) IN
       sg' = [self |-> r.self, op |-> "add", args |-> <<other>>, ret |-> r.ret]
    /\ UNCHANGED <<calVars, sm, px, vl, appVars>>

GraphAverage(graphs) ==
    /\ sg.ret.k # "panic"
    /\ sg' = [sg EXCEPT !.op = "average_spectrograph", !.args = <<graphs>>,
                        !.ret = average_spectrograph(graphs)]
    /\ UNCHANGED <<calVars, sm, px, vl, appVars>>

RelativeNew(reference) ==
    /\ sg.ret.k # "panic"
    /\ sg' = [sg EXCEPT !.op = "RelativeSpectrum::new", !.args = <<reference>>,
                        !.ret = RelativeSpectrum_new(sg.self, reference)]
    /\ UNCHANGED <<calVars, sm, px, vl, appVars>>

\* "Save Spectrum": spec.write_to_csv(path, &self.comment)
GraphWriteCsv ==
    /\ sg.ret.k # "panic"
    /\ sg' = [sg EXCEPT !.op = "write_to_csv", !.args = <<sg.self>>,
                        !.ret = Outcome("ok", write_to_csv(sg.self))]
    /\ UNCHANGED <<calVars, sm, px, vl, appVars>>

\* "Save Relative Spectrum": RelativeSpectrum::new(spec, reference), then
\* write_to_csv of the result
RelativeWriteCsv(reference) ==
    /\ sg.ret.k # "panic"
    /\ LET spec == RelativeSpectrum_new(sg.self, reference) IN
       sg' = [sg EXCEPT !.op = "RelativeSpectrum::write_to_csv",
                        !.args = IF spec.k = "panic" THEN <<>> ELSE <<spec.v>>,
                        !.ret = IF spec.k = "panic" THEN Panicked
                                ELSE Outcome("ok", RelativeSpectrum_write_to_csv(spec.v))]
    /\ UNCHANGED <<calVars, sm, px, vl, appVars>>

GraphNext ==
    \/ \E other \in Graphs : GraphAdd(other)
    \/ \E graphs \in GraphLists : GraphAverage(graphs)
    \/ \E reference \in Graphs : RelativeNew(reference)
    \/ GraphWriteCsv
    \/ \E reference \in Graphs : RelativeWriteCsv(reference)

GraphInit ==
    /\ CalInit
    /\ sm = SmIdle
    /\ px = PxIdle
    /\ sg \in {[self |-> g, op |-> "new", args |-> <<>>, ret |-> Outcome("ok", <<>>)] :
                 g \in Graphs}
    /\ vl = VlIdle
    /\ AppIdle

(***************************************************************************)
(* The calibration set of the worked example: three lines at 450, 550 and  *)
(* 650 nm, committed in any order and drawn in either direction, and any   *)
(* part of it.                                                             *)
(***************************************************************************)
ScenarioLines ==
    << <<450, Line(<<10, 0>>, <<12, 100>>)>>,
       <<550, Line(<<50, 0>>, <<52, 100>>)>>,
       <<650, Line(<<90, 0>>, <<92, 100>>)>> >>

reversed(line) == Line(line.end, line.start)

\* the ways the user can have drawn the lines idx (a sequence of distinct
\* indices into ScenarioLines), with wavelength wls[i] typed for line i
ScenarioSets ==
    {[i \in 1..Len(idx) |->
        <<ScenarioLines[wls[idx[i]]][1],
          IF flip[idx[i]] THEN reversed(ScenarioLines[idx[i]][2])
          ELSE ScenarioLines[idx[i]][2]>>] :
       idx \in {q \in UNION {[1..n -> 1..3] : n \in 1..3} :
                  \A i, j \in 1..Len(q) : i # j => q[i] # q[j]},
       flip \in [1..3 -> BOOLEAN],
       wls \in {<<1, 2, 3>>, <<3, 2, 1>>}}

ScenarioInit ==
    /\ lines \in ScenarioSets
    /\ start = None
    /\ current_line = None
    /\ show_generated = None
    /\ spectral = None
    /\ grating_const = 500
    /\ cal_ret = Ret("new", None)
    /\ hung = FALSE
    /\ sm = SmIdle
    /\ px = PxIdle
    /\ sg = SgIdle
    /\ vl = VlIdle
    /\ AppIdle

ScenarioNext ==
    \/ GenerateRegression /\ UNCHANGED <<sm, px, sg, vl, appVars>>
    \/ GetLine(550) /\ UNCHANGED <<sm, px, sg, vl, appVars>>

(***************************************************************************)
(* Specifications                                                          *)
(***************************************************************************)
Init ==
    CalInit /\ sm = SmIdle /\ px = PxIdle /\ sg = SgIdle /\ vl = VlIdle /\ AppIdle
Next == CalNext /\ UNCHANGED <<sm, px, sg, vl, appVars>>
Spec == Init /\ [][Next]_vars

ImgInit ==
    /\ CalInit
    /\ sm = SmIdle
    /\ sg = SgIdle
    /\ px \in {[img |-> NewImage(size[1], size[2]), build |-> b, op |-> "new",
                args |-> <<>>, ret |-> <<>>] : size \in ImageSizes, b \in Builds}
    /\ vl = VlIdle
    /\ AppIdle

\* validate() on one calibration set
ValidateInit ==
    /\ CalInit
    /\ sm = SmIdle
    /\ px = PxIdle
    /\ sg = SgIdle
    /\ vl \in Calibrations
    /\ AppIdle

SpecValidate == ValidateInit /\ [][ValidateCall]_vars

\* calls on one Image
SpecImage == ImgInit /\ [][ImgNext]_vars

\* calls on one AbsSpectrograph
SpecGraph == GraphInit /\ [][GraphNext]_vars

\* the worked example of the calibration
SpecScenario == ScenarioInit /\ [][ScenarioNext]_vars

SearchInit ==
    /\ CalInit
    /\ px = PxIdle
    /\ sg = SgIdle
    /\ sm \in {SmEntry(d, p, m, a) :
                 d \in SearchData, p \in SearchParams,
                 m \in 0..MaxIterations, a \in StepSizes}
    /\ vl = VlIdle
    /\ AppIdle

\* one call of search_minimum; the call runs on the calling thread until it
\* returns, so a step that is possible is taken
SpecSearch == SearchInit /\ [][SearchNext]_vars /\ WF_vars(SearchNext)

(***************************************************************************)
(* SpectrographModule (spectrum_module.rs): one step per frame, display()  *)
(* running side_panel and then main_view                                   *)
(***************************************************************************)
SMALLEST_WAVELENGTH == 380

\* the stop of the view, in place of LARGEST_WAVELENGTH, to keep the
\* spectrographs short
ViewStop == SMALLEST_WAVELENGTH + 2

\* the largest take_average the slider is moved to
MaxTakeAverage == 2

\* impl Default for SpectrographModule
SpectrographModule_default ==
    [take_average |-> 1, reference |-> None, current |-> None,
     spec_buf |-> <<>>, relative |-> FALSE,
     start |-> SMALLEST_WAVELENGTH, stop |-> ViewStop, step |-> 1,
     save_next |-> FALSE]

\* what the frame hands to the view: no frame from the camera or an image,
\* and a calibration that cannot be fitted, one whose lines lie on the
\* image and one whose lines lie beside it
ViewImages == {None, Some(NewImage(2, 2))}
ViewCalibs == {None, Some([x0 |-> 0, dx |-> 1, ys |-> <<0, 4>>]),
               Some([x0 |-> 0 - 4, dx |-> 1, ys |-> <<0, 4>>])}

\* what the user does in the side panel in one frame
ViewEvents ==
    {[kind |-> k, value |-> 0] : k \in {"none", "take reference", "relative", "save"}}
    \cup {[kind |-> "take_average", value |-> n] : n \in 0..MaxTakeAverage}

\* total / total_weights of read_line_lightness as an f32
lightness_f32(v) ==
    IF v.k # "fin" THEN v ELSE Fin(tdiv(v.v[1] * Unit, v.v[2]))

\* side_panel with the "relative" checkbox shown without a reference
side_panel_checkbox_always(self, ev) ==
    IF ev.kind = "take reference"
    THEN (IF self.current # None
          THEN [self EXCEPT !.reference = self.current, !.relative = TRUE]
          ELSE self)
    ELSE IF ev.kind = "relative" THEN [self EXCEPT !.relative = ~self.relative]
    ELSE IF ev.kind = "take_average" THEN [self EXCEPT !.take_average = ev.value]
    ELSE IF ev.kind = "save" THEN [self EXCEPT !.save_next = TRUE]
    ELSE self

\* SpectrographModule::side_panel
side_panel(self, ev) ==
    IF ev.kind = "take reference"
    THEN (IF self.current # None
          THEN [self EXCEPT !.reference = self.current, !.relative = TRUE]
          ELSE self)
    ELSE IF ev.kind = "relative"
    THEN (IF self.reference # None THEN [self EXCEPT !.relative = ~self.relative]
          ELSE self)
    ELSE IF ev.kind = "take_average" THEN [self EXCEPT !.take_average = ev.value]
    ELSE IF ev.kind = "save" THEN [self EXCEPT !.save_next = TRUE]
    ELSE self

\* the first statement of main_view: get_img, from_img, push
push_frame(self, img, calib, build) ==
    IF img = None THEN [self |-> self, panic |-> "none"]
    ELSE LET r == from_img(img[1], calib, self.start, self.stop, self.step, build) IN
         IF r.k = "panic" THEN [self |-> self, panic |-> "read_line_lightness"]
         ELSE IF r.k = "none" THEN [self |-> self, panic |-> "none"]
         ELSE [self |-> [self EXCEPT !.spec_buf =
                           Append(@, [r.v EXCEPT !.values =
                                        [i \in 1..Len(r.v.values) |->
                                           lightness_f32(r.v.values[i])]])],
               panic |-> "none"]

\* SpectrographModule::main_view after the push: the module afterwards, the
\* statement that panicked, the length of the buffer handed to
\* average_spectrograph and the table that was saved
show_current(s2, averaged) ==
    IF s2.current = None
    THEN [self |-> s2, panic |-> "none", averaged |-> averaged, saved |-> "none"]
    ELSE IF s2.relative
    THEN (IF s2.reference = None
          THEN [self |-> s2, panic |-> "none", averaged |-> averaged,
                saved |-> "none"]
          ELSE IF RelativeSpectrum_new(s2.current[1], s2.reference[1]).k = "panic"
          THEN [self |-> s2, panic |-> "RelativeSpectrum::new",
                averaged |-> averaged, saved |-> "none"]
          ELSE [self |-> [s2 EXCEPT !.save_next = FALSE], panic |-> "none",
                averaged |-> averaged,
                saved |-> IF s2.save_next THEN "relative" ELSE "none"])
    ELSE [self |-> [s2 EXCEPT !.save_next = FALSE], panic |-> "none",
          averaged |-> averaged,
          saved |-> IF s2.save_next THEN "absolute" ELSE "none"]

\* SpectrographModule::main_view: the buffer is averaged once it holds
\* take_average graphs; every value is computed once, as a frame does
main_view(self, img, calib, build) ==
    CHOOSE r \in UNION {
        IF pushed.panic # "none"
        THEN {[self |-> pushed.self, panic |-> pushed.panic, averaged |-> None,
               saved |-> "none"]}
        ELSE IF Len(pushed.self.spec_buf) < pushed.self.take_average
        THEN {show_current(pushed.self, None)}
        ELSE UNION {
            IF avg.k = "panic"
            THEN {[self |-> pushed.self,
                   panic |-> IF pushed.self.spec_buf = <<>> THEN "graphs[0]"
                             ELSE "AbsSpectrograph::add",
                   averaged |-> Some(Len(pushed.self.spec_buf)), saved |-> "none"]}
            ELSE {show_current(s2, Some(Len(pushed.self.spec_buf))) :
                    s2 \in {[pushed.self EXCEPT !.current = Some(avg.v),
                                                !.spec_buf = <<>>]}}
            : avg \in {average_spectrograph(pushed.self.spec_buf)}}
        : pushed \in {push_frame(self, img, calib, build)}} : TRUE

\* SpectrographModule::display: one frame
SpectrographDisplay(ev, img, calib) ==
    /\ sv.panic = "none"
    /\ \E s0 \in {side_panel(sv.self, ev)} :
       \E r \in {main_view(s0, img, calib, sv.build)} :
           sv' = [sv EXCEPT !.op = "display", !.self = r.self, !.panic = r.panic,
                            !.averaged = r.averaged, !.saved = r.saved]
    /\ UNCHANGED <<calVars, sm, px, sg, vl, tr, cm, gl>>

ViewNext ==
    \E ev \in ViewEvents, img \in ViewImages, calib \in ViewCalibs :
        SpectrographDisplay(ev, img, calib)

ViewInit ==
    /\ CalInit
    /\ sm = SmIdle
    /\ px = PxIdle
    /\ sg = SgIdle
    /\ vl = VlIdle
    /\ sv \in {[op |-> "new", self |-> SpectrographModule_default, build |-> b,
                 panic |-> "none", averaged |-> None, saved |-> "none"] :
                  b \in Builds}
    /\ tr = TrIdle
    /\ cm = CmIdle
    /\ gl = GlIdle

\* the frames of the spectrograph view
SpecView == ViewInit /\ [][ViewNext]_vars

(***************************************************************************)
(* TracerModule (tracer_module.rs): one step per frame, display() running  *)
(* side_panel and then main_view.  Instants are frame numbers; a sample of *)
(* a tracer is written as the number of the frame it was read in.          *)
(***************************************************************************)
\* the frames of one run of the tracer view
MaxFrames == 4

\* the most tracers that are added
MaxTracers == 2

\* impl Default for TracerModule
TracerModule_default ==
    [start_inst |-> None, time_s |-> <<>>, tracers |-> <<>>, record |-> FALSE,
     reconfigure_next |-> FALSE, add_new_next |-> TRUE]

\* the wavelengths a tracer is dragged to
TracerWavelengths == {450, 500}

\* what the user does in the side panel in one frame: a drag of the
\* wavelength of tracer "value" to "wavelength", or a button
TracerEvents ==
    {[kind |-> k, value |-> 0, wavelength |-> 500] :
       k \in {"none", "add new wavelength", "Take reference", "start recording",
              "save"}}
    \cup {[kind |-> "drag", value |-> i, wavelength |-> w] :
            i \in 1..MaxTracers, w \in TracerWavelengths}

\* PeakTrace::clear
PeakTrace_clear(tracer) == [tracer EXCEPT !.abs_values = <<>>]

\* PeakTrace::take_reference
PeakTrace_take_reference(tracer) == [tracer EXCEPT !.reference = tracer.current_abs]

\* TracerModule::take_reference
take_reference(self) ==
    [self EXCEPT !.tracers =
       [i \in 1..Len(self.tracers) |->
          PeakTrace_take_reference(PeakTrace_clear(self.tracers[i]))]]

\* TracerModule::start_recording
start_recording(self, now) ==
    [take_reference(self) EXCEPT !.start_inst = Some(now), !.record = TRUE]

\* the keys and the columns save_current hands to csv::write_f32_csv
save_current(self) ==
    [keys |-> <<"Time [s]">> \o [i \in 1..Len(self.tracers) |-> self.tracers[i].wavelength],
     valss |-> <<self.time_s>> \o [i \in 1..Len(self.tracers) |-> self.tracers[i].abs_values]]

\* TracerModule::side_panel: the module afterwards and what was saved
TracerModule_side_panel(self, ev, now) ==
    IF ev.kind = "drag"
    THEN [self |-> IF ev.value <= Len(self.tracers)
                   THEN [self EXCEPT !.tracers[ev.value].wavelength = ev.wavelength,
                                     !.reconfigure_next = TRUE]
                   ELSE self,
          saved |-> None]
    ELSE IF ev.kind = "add new wavelength"
    THEN [self |-> IF self.record
                   THEN start_recording([self EXCEPT !.add_new_next = TRUE], now)
                   ELSE [self EXCEPT !.add_new_next = TRUE],
          saved |-> None]
    ELSE IF ev.kind = "Take reference"
    THEN [self |-> take_reference(self), saved |-> None]
    ELSE IF ev.kind = "start recording"
    THEN [self |-> start_recording(self, now), saved |-> None]
    ELSE IF ev.kind = "save"
    THEN [self |-> start_recording(self, now), saved |-> Some(save_current(self))]
    ELSE [self |-> self, saved |-> None]

\* PeakTrace::update(img, calib, record): get_line returns None for a
\* calibration that cannot be fitted
PeakTrace_update(tracer, now, fitted, record) ==
    IF ~fitted THEN tracer
    ELSE [tracer EXCEPT !.current_abs = now,
                        !.abs_values = IF record THEN Append(@, now) ELSE @]

\* self.tracers.sort_by(wavelength) for at most two tracers
sort_tracers(tracers) ==
    IF Len(tracers) = 2 /\ tracers[1].wavelength > tracers[2].wavelength
    THEN <<tracers[2], tracers[1]>>
    ELSE tracers

\* TracerModule::main_view with the frame "now", an image or none from the
\* camera and a calibration that can be fitted or not
TracerModule_main_view(self, now, img, fitted) ==
    IF ~img THEN self
    ELSE LET s1 == IF self.record
                   THEN [self EXCEPT !.time_s = Append(@, now - self.start_inst[1])]
                   ELSE self
             s2 == [s1 EXCEPT !.tracers =
                      [i \in 1..Len(s1.tracers) |->
                         PeakTrace_update(s1.tracers[i], now, fitted, s1.record)]]
             s3 == IF s2.add_new_next
                   THEN [s2 EXCEPT !.tracers =
                           IF fitted
                           THEN Append(@, [wavelength |-> 500, reference |-> now,
                                           current_abs |-> now, abs_values |-> <<>>])
                           ELSE @,
                                   !.add_new_next = FALSE]
                   ELSE s2
             s4 == IF s3.reconfigure_next
                   THEN LET sorted == [s3 EXCEPT !.tracers = sort_tracers(@)] IN
                        [(IF s3.record THEN start_recording(sorted, now)
                          ELSE take_reference(sorted))
                         EXCEPT !.reconfigure_next = FALSE]
                   ELSE s3
         IN  s4

\* TracerModule::display: one frame
TracerDisplay(ev, img, fitted) ==
    /\ tr.frame < MaxFrames
    /\ ev.kind = "add new wavelength" => Len(tr.self.tracers) < MaxTracers
    /\ LET now == tr.frame + 1
           panel == TracerModule_side_panel(tr.self, ev, now)
       IN  tr' = [op |-> "display", frame |-> now,
                  self |-> TracerModule_main_view(panel.self, now, img, fitted),
                  saved |-> panel.saved]
    /\ UNCHANGED <<calVars, sm, px, sg, vl, sv, cm, gl>>

TracerNext ==
    \E ev \in TracerEvents, img \in BOOLEAN, fitted \in BOOLEAN :
        TracerDisplay(ev, img, fitted)

TracerInit ==
    /\ CalInit
    /\ sm = SmIdle
    /\ px = PxIdle
    /\ sg = SgIdle
    /\ vl = VlIdle
    /\ sv = SvIdle
    /\ tr = [op |-> "new", frame |-> 0, self |-> TracerModule_default, saved |-> None]
    /\ cm = CmIdle
    /\ gl = GlIdle

\* the frames of the tracer view
SpecTracer == TracerInit /\ [][TracerNext]_vars

(***************************************************************************)
(* CameraModule (camera_module.rs) and the global CAMERA_STREAM            *)
(* (camera_module/camera_stream.rs): one step per frame, display() running *)
(* side_panel and then the central panel                                   *)
(***************************************************************************)
\* the most devices enum_devices returns
MaxNodes == 2

\* the devices enum_devices can return: per device whether its name can be
\* read
NodeLists == UNION {[1..n -> BOOLEAN] : n \in 0..MaxNodes}

\* the frame sizes of a camera
FrameSizes == {<<1, 2>>, <<2, 2>>}

\* CameraModule::new, with CAMERA_STREAM still None
CameraModule_new == [inner |-> None, nodes |-> <<>>, stream |-> FALSE]

\* what the user does in the side panel in one frame, and how the device
\* answers: ok is the Result of the device call the click leads to
CameraEvents ==
    {[kind |-> "none", node |-> 0, nodes |-> <<>>, size |-> <<1, 2>>, ok |-> TRUE]}
    \cup {[kind |-> "get cameras", node |-> 0, nodes |-> ns, size |-> <<1, 2>>,
            ok |-> TRUE] : ns \in NodeLists}
    \cup {[kind |-> "initialise", node |-> i, nodes |-> <<>>, size |-> sz, ok |-> ok] :
            i \in 1..MaxNodes, sz \in FrameSizes, ok \in BOOLEAN}
    \cup {[kind |-> k, node |-> 0, nodes |-> <<>>, size |-> sz, ok |-> ok] :
            k \in {"format", "size", "FPS", "control"}, sz \in FrameSizes,
            ok \in BOOLEAN}
    \cup {[kind |-> "reset camera", node |-> 0, nodes |-> <<>>, size |-> <<1, 2>>,
            ok |-> TRUE]}

\* CameraModule::query
query(self, nodes) == [self EXCEPT !.nodes = nodes, !.inner = None]

\* reset that leaves the opened camera in place
reset_nodes_only(self) == [self EXCEPT !.nodes = <<>>, !.stream = FALSE]

\* CameraModule::reset, CameraStream::close included
reset(self) == [self EXCEPT !.nodes = <<>>, !.inner = None, !.stream = FALSE]

\* CamInner::update_side_panel: a click on a format, a size or an FPS entry
\* closes the stream and then sets the value; set_control closes it too
update_side_panel(self, ev) ==
    IF ev.kind \in {"format", "size"}
    THEN [self EXCEPT !.stream = FALSE,
                      !.inner = IF ev.ok THEN Some([width |-> ev.size[1],
                                                    height |-> ev.size[2]])
                                ELSE @]
    ELSE IF ev.kind \in {"FPS", "control"} THEN [self EXCEPT !.stream = FALSE]
    ELSE self

\* the match of CameraModule::side_panel on (!nodes.is_empty(),
\* inner.is_some())
side_panel_match(self, ev) ==
    IF self.nodes = <<>> /\ self.inner = None
    THEN [self |-> IF ev.kind = "get cameras" THEN query(self, ev.nodes) ELSE self,
          panic |-> "none"]
    ELSE IF self.nodes # <<>> /\ self.inner = None
    THEN [self |-> IF /\ ev.kind = "initialise"
                      /\ ev.node <= Len(self.nodes)
                      /\ self.nodes[ev.node]
                      /\ ev.ok
                   THEN [self EXCEPT !.inner = Some([width |-> ev.size[1],
                                                     height |-> ev.size[2]])]
                   ELSE self,
          panic |-> "none"]
    ELSE IF self.nodes # <<>> /\ self.inner # None
    THEN [self |-> update_side_panel(self, ev), panic |-> "none"]
    ELSE [self |-> self, panic |-> "unreachable!()"]

\* CameraModule::side_panel: the match, then the "reset camera" button
CameraModule_side_panel(self, ev) ==
    LET m == side_panel_match(self, ev) IN
    IF m.panic # "none" THEN m
    ELSE [self |-> IF ev.kind = "reset camera" THEN reset(m.self) ELSE m.self,
          panic |-> "none"]

\* the central panel of CameraModule::display: the module afterwards and,
\* when get_img ran, whether CAMERA_STREAM was Some at that moment
central_panel(self, take, opened) ==
    IF self.stream
    THEN [self |-> self,
          get_img |-> IF take THEN Some(self.stream) ELSE None,
          panic |-> IF self.inner = None THEN "inner should be initialised"
                    ELSE "none"]
    ELSE IF self.inner # None
    THEN [self |-> [self EXCEPT !.stream = opened], get_img |-> None, panic |-> "none"]
    ELSE [self |-> self, get_img |-> None, panic |-> "none"]

\* CameraModule::display: one frame; take is a click on "take calibration
\* image", opened the outcome of MmapStream::with_buffers
CameraDisplay(ev, take, opened) ==
    /\ cm.panic = "none"
    /\ LET panel == CameraModule_side_panel(cm.self, ev) IN
       IF panel.panic # "none"
       THEN cm' = [cm EXCEPT !.op = ev.kind, !.panic = panel.panic, !.get_img = None]
       ELSE LET c == central_panel(panel.self, take, opened) IN
            cm' = [op |-> ev.kind, self |-> c.self, get_img |-> c.get_img,
                   panic |-> c.panic]
    /\ UNCHANGED <<calVars, sm, px, sg, vl, sv, tr, gl>>

CameraNext ==
    \E ev \in CameraEvents, take \in BOOLEAN, opened \in BOOLEAN :
        CameraDisplay(ev, take, opened)

CameraInit ==
    /\ CalInit
    /\ sm = SmIdle
    /\ px = PxIdle
    /\ sg = SgIdle
    /\ vl = VlIdle
    /\ sv = SvIdle
    /\ tr = TrIdle
    /\ cm = [op |-> "new", self |-> CameraModule_new, get_img |-> None,
             panic |-> "none"]
    /\ gl = GlIdle

\* the frames of the camera view
SpecCamera == CameraInit /\ [][CameraNext]_vars

(***************************************************************************)
(* The allocation and the loop of get_lines (calibration_module.rs) on a   *)
(* calibration whose model exists, one step per statement.  Wavelengths    *)
(* are hundredths; the f32 of this section has a mantissa so short that    *)
(* near 380 it only holds multiples of Ulp, as the real one only holds     *)
(* multiples of 2^-15.                                                     *)
(***************************************************************************)
\* the distance of neighbouring f32 values near the wavelengths (0.5 nm)
Ulp == Unit \div 2

\* current_wl += step: the sum rounded to the nearest value the f32 holds
wl_add(current_wl, step) == ((current_wl + step + Ulp \div 2) \div Ulp) * Ulp

\* the pushes after which a call is followed no further
MaxPushes == 5

\* start, stop and step in hundredths: the ranges of the worked example,
\* empty and reversed ranges, and steps of 0, of -1 and of 0.1
LoopStarts == {38000, 38100, 38400}
LoopStops == {38000, 38300, 38400}
LoopSteps == {100, 200, 0, 0 - 100, 10}

\* ((stop - start) / step) as usize: NaN and negative values become 0, an
\* infinite quotient the largest usize
capacity(from, stop, step) ==
    LET q == fdiv(Fin(stop - from), Fin(step)) IN
    IF is_nan(q) THEN [k |-> "n", v |-> 0]
    ELSE IF q.k = "inf"
    THEN (IF q.v > 0 THEN [k |-> "usize::MAX", v |-> 0] ELSE [k |-> "n", v |-> 0])
    ELSE IF q.v < 0 THEN [k |-> "n", v |-> 0]
    ELSE [k |-> "n", v |-> q.v \div Unit]

\* let mut lines = Vec::with_capacity(..): a capacity of usize::MAX Lines
\* exceeds isize::MAX bytes and panics with "capacity overflow"
GlWithCapacity ==
    /\ gl.pc = "with_capacity"
    /\ LET c == capacity(gl.start, gl.stop, gl.step) IN
       gl' = IF c.k = "usize::MAX" THEN [gl EXCEPT !.pc = "panicked"]
             ELSE [gl EXCEPT !.pc = "while", !.capacity = c.v]
    /\ UNCHANGED <<calVars, sm, px, sg, vl, sv, tr, cm>>

\* while current_wl < stop { lines.push(..); current_wl += step }
GlWhile ==
    /\ gl.pc = "while"
    /\ gl.current_wl < gl.stop
    /\ gl.pushed < MaxPushes
    /\ gl' = [gl EXCEPT !.pushed = @ + 1,
                        !.current_wl = wl_add(gl.current_wl, gl.step)]
    /\ UNCHANGED <<calVars, sm, px, sg, vl, sv, tr, cm>>

\* Some(lines)
GlReturn ==
    /\ gl.pc = "while"
    /\ ~(gl.current_wl < gl.stop)
    /\ gl' = [gl EXCEPT !.pc = "returned"]
    /\ UNCHANGED <<calVars, sm, px, sg, vl, sv, tr, cm>>

LoopNext == GlWithCapacity \/ GlWhile \/ GlReturn

LoopInit ==
    /\ CalInit
    /\ sm = SmIdle
    /\ px = PxIdle
    /\ sg = SgIdle
    /\ vl = VlIdle
    /\ sv = SvIdle
    /\ tr = TrIdle
    /\ cm = CmIdle
    /\ gl \in {[pc |-> "with_capacity", start |-> from, stop |-> stop, step |-> step,
                 current_wl |-> from, capacity |-> 0, pushed |-> 0] :
                  from \in LoopStarts, stop \in LoopStops, step \in LoopSteps}

\* one call of get_lines
SpecLoop == LoopInit /\ [][LoopNext]_vars

(***************************************************************************)
(* Claims on the calibration view (specification Spec)                     *)
(***************************************************************************)

\* C1: once a fitted model exists, every edit of the calibration set (a
\* committed line, or "discard all lines") discards the model: a step that
\* changes lines while spectral is Some leaves spectral None.
C1_EditDiscardsModel ==
    [][(spectral # None /\ lines' # lines) => spectral' = None]_vars

\* C7: generate_regression returns None, with spectral left None, exactly
\* when the set has fewer than 2 lines or validate() is false; in every
\* other case it returns Some(()) and spectral is Some afterwards.
\* (validate() is idempotent on the lines it has rewritten, so the refusal
\* condition can be read off the state after the call.)
C7_FitRefusedIffInvalid ==
    cal_ret.op = "generate_regression" =>
        IF Len(lines) < 2 \/ ~validate(lines)
        THEN cal_ret.ret = None /\ spectral = None
        ELSE cal_ret.ret = Some("()") /\ spectral # None

has_nan(line) ==
    \/ is_nan(line.start[1]) \/ is_nan(line.start[2])
    \/ is_nan(line.end[1]) \/ is_nan(line.end[2])

\* C10: a diffraction ratio outside [-1, 1] is reported as an error; no
\* Line returned by a query carries a NaN coordinate.
C10_NoNaNLine ==
    /\ cal_ret.op = "get_line" /\ cal_ret.ret # None => ~has_nan(cal_ret.ret[1])
    /\ cal_ret.op = "get_lines" /\ cal_ret.ret # None =>
          \A i \in 1..Len(cal_ret.ret[1]) : ~has_nan(cal_ret.ret[1][i])

\* the x coordinates of both endpoints never fall along the sequence
non_decreasing_x(s) ==
    \A i \in 1..Len(s), j \in 1..Len(s) :
        i < j => /\ s[i][2].start[1] <= s[j][2].start[1]
                 /\ s[i][2].end[1] <= s[j][2].end[1]

\* C2: validate() is true if and only if, with every line made top to
\* bottom and the lines sorted by ascending wavelength, start.x and end.x
\* are both non-decreasing along the sequence.
C2_ValidateIffNonDecreasing ==
    validate(lines) <=> non_decreasing_x(validated_lines(lines))

\* C5: when stop - start is k times step, get_lines returns k + 1 lines, one
\* for each of start, start + step, ..., stop, the last one being the line
\* of the wavelength stop.
C5_StopIsSampled ==
    (/\ cal_ret.op = "get_lines"
     /\ cal_ret.ret # None
     /\ (cal_ret.args[2] - cal_ret.args[1]) % cal_ret.args[3] = 0)
    => LET k == (cal_ret.args[2] - cal_ret.args[1]) \div cal_ret.args[3]
           ls == cal_ret.ret[1]
       IN  /\ Len(ls) = k + 1
           /\ ls[Len(ls)] = line_with_wavelength(spectral[1], cal_ret.args[2])

(***************************************************************************)
(* Claims on the worked example (specification SpecScenario)               *)
(***************************************************************************)

\* C3: for the set (450, (0.1,0.0)-(0.12,1.0)), (550, (0.5,0.0)-(0.52,1.0)),
\* (650, (0.9,0.0)-(0.92,1.0)) with grating_const 500 the fit succeeds:
\* validate() accepts the set, the optimizer returns and a SpectralLines
\* model is stored (the queried line of 550 nm is then taken from it).
C3_ScenarioFitSucceeds ==
    (cal_ret.op = "generate_regression" /\ validated_lines(lines) = ScenarioLines)
        => (cal_ret.ret = Some("()") /\ spectral # None /\ ~hung)

(***************************************************************************)
(* Claims on the image (specification SpecImage)                           *)
(***************************************************************************)
inside(img, x, y) == 0 <= x /\ x < img.width /\ 0 <= y /\ y < img.height

\* C6: read_line_lightness adds a rasterized pixel to its sums only if
\* 0 <= x < width and 0 <= y < height, and for every other coordinate
\* Image::get returns None.
C6_OnlyInsidePixelsAdded ==
    /\ px.op = "get" /\ ~inside(px.img, px.args[1], px.args[2])
          => px.ret = OptNone
    /\ px.op = "read_line_lightness"
          => \A i \in 1..Len(px.ret.used) :
                 inside(px.img, px.ret.used[i][1], px.ret.used[i][2])

\* every pixel the rasterizer yields for the line is outside the image
entirely_outside(img, line) ==
    LET pixels == xiaolin_wu(line.start[1] * img.width,
                             line.start[2] * img.height,
                             line.end[2] * img.height)
    IN  \A i \in 1..Len(pixels) : ~inside(img, pixels[i][1], pixels[i][2])

\* C9: a line that lies entirely outside the image does not abort the
\* build: from_img returns a spectrograph with one entry per line of
\* get_lines, and exactly the entries of the lines entirely outside the
\* image are marked invalid.
C9_OutsideLineMarkedInvalid ==
    (px.op = "from_img" /\ px.args[1] # None)
    => LET ls == calib_get_lines(px.args[1], px.args[2], px.args[3], px.args[4])[1]
       IN  /\ px.ret.k = "some"
           /\ Len(px.ret.v.values) = Len(ls)
           /\ \A i \in 1..Len(ls) :
                 is_nan(px.ret.v.values[i]) <=> entirely_outside(px.img, ls[i])

(***************************************************************************)
(* Claims on the spectrographs (specification SpecGraph)                   *)
(***************************************************************************)

\* C8: combining spectrographs whose (start, stop, step) differ is rejected
\* before anything is computed: add, average_spectrograph and
\* RelativeSpectrum::new end in a panic, produce no spectrograph and leave
\* the receiver as it was.
C8_MismatchRejected ==
    [][/\ (sg'.op = "add" /\ ~compare(sg.self, sg'.args[1]))
            => (sg'.ret.k = "panic" /\ sg'.self = sg.self)
       /\ (sg'.op = "average_spectrograph"
           /\ \E i \in 1..Len(sg'.args[1]) :
                  ~compare(sg'.args[1][1], sg'.args[1][i]))
            => (sg'.ret.k = "panic" /\ sg'.self = sg.self)
       /\ (sg'.op = "RelativeSpectrum::new" /\ ~compare(sg.self, sg'.args[1]))
            => (sg'.ret.k = "panic" /\ sg'.self = sg.self)]_vars

\* C8 witness: an add of a spectrograph with another (start, stop, step)
\* has been rejected
C8_MismatchRejectedWitness ==
    /\ sg.op = "add"
    /\ ~compare(sg.self, sg.args[1])
    /\ sg.ret.k = "panic"

(***************************************************************************)
(* Claims on the optimizer (specification SpecSearch)                      *)
(***************************************************************************)

\* C4: the backtracking loop of search_minimum is bounded by a maximum
\* shrink count: for every problem and parameter vector, a NaN cost
\* included, it stops after at most that many shrinks of alpha.  A bounded
\* loop has left once shrinking no longer changes current_alpha; the loop
\* of the program has one exit, the accepted candidate, so it is bounded
\* only if the candidate is accepted in every such state.
C4_BacktrackingLoopEnds ==
    (sm.pc = "loop" /\ fmul(sm.current_alpha, CtlTau) = sm.current_alpha)
        => sufficient_decrease(sm.data, sm.parameters, sm.gradient,
                               sm.current_alpha, sm.t)

\* C11: whenever search_minimum returns it has made exactly max_iterations
\* parameter updates, one per pass of the for loop (i counts them): there
\* is no earlier exit, and with max_iterations = 0 the initial parameters
\* are returned unchanged.
C11_ExactlyMaxIterations ==
    sm.pc = "returned" =>
        /\ sm.i = sm.max_iterations
        /\ sm.max_iterations = 0 => sm.parameters = sm.initial_params

\* C11 witness: a call with max_iterations > 0 has returned, and its last
\* pass started from a vanishing gradient
C11_ExactlyMaxIterationsWitness ==
    /\ sm.pc = "returned"
    /\ sm.max_iterations > 0
    /\ sm.i = sm.max_iterations
    /\ inner_product(sm.gradient, sm.gradient) = Fin(0)

\* C12: a query of the line of a wavelength through get_line or get_lines
\* has no side effect: the committed lines (their order and the orientation
\* of their endpoints), the pending line state and the fitted model are the
\* same after the call as before it.
C12_QueryHasNoSideEffect ==
    [][cal_ret'.op \in {"get_line", "get_lines"}
          => UNCHANGED <<lines, start, current_line, spectral>>]_vars

(***************************************************************************)
(* Claims on validate() (specification SpecValidate)                       *)
(***************************************************************************)
monotone(keys) ==
    is_sorted(keys) \/ is_sorted([i \in 1..Len(keys) |-> 0 - keys[i]])

\* C13: validate() honours the configured primary axis.  Configured left to
\* right, every line ends with start.x <= end.x and the y coordinates are
\* the ones checked for monotonicity; configured top to bottom, every line
\* ends with start.y <= end.y and the x coordinates are checked.
C13_AxisHonoured ==
    vl.op = "validate" =>
        LET s == vl.lines IN
        IF vl.horizontal_lines
        THEN /\ \A i \in 1..Len(s) : s[i][2].start[1] <= s[i][2].end[1]
             /\ vl.ret => /\ monotone([i \in 1..Len(s) |-> s[i][2].start[2]])
                          /\ monotone([i \in 1..Len(s) |-> s[i][2].end[2]])
        ELSE /\ \A i \in 1..Len(s) : s[i][2].start[2] <= s[i][2].end[2]
             /\ vl.ret => /\ monotone([i \in 1..Len(s) |-> s[i][2].start[1]])
                          /\ monotone([i \in 1..Len(s) |-> s[i][2].end[1]])

\* the entry b is the entry a with its endpoints possibly exchanged
same_entry(a, b) ==
    /\ a[1] = b[1]
    /\ {a[2].start, a[2].end} = {b[2].start, b[2].end}

\* t holds the entries of s, each once, in some order
rearranged(s, t) ==
    /\ Len(s) = Len(t)
    /\ \E f \in [1..Len(s) -> 1..Len(s)] :
          /\ \A i, j \in 1..Len(s) : i # j => f[i] # f[j]
          /\ \A i \in 1..Len(s) : same_entry(s[i], t[f[i]])

\* C14: whatever validate() returns, afterwards the set is sorted by
\* ascending wavelength, every line has start.y <= end.y, the number of
\* lines is unchanged and each line keeps its wavelength and its unordered
\* pair of endpoints.
C14_ValidateLeavesSortedCanonical ==
    (vl.op = "validate" /\ vl.module = "calibration_module.rs") =>
        /\ is_sorted([i \in 1..Len(vl.lines) |-> vl.lines[i][1]])
        /\ \A i \in 1..Len(vl.lines) :
              vl.lines[i][2].start[2] <= vl.lines[i][2].end[2]
        /\ rearranged(vl.input, vl.lines)

\* C14 witness: validate() has returned false on a set it had to re-sort
\* and in which it had to turn a line
C14_ValidateLeavesSortedCanonicalWitness ==
    /\ vl.op = "validate"
    /\ vl.module = "calibration_module.rs"
    /\ ~vl.ret
    /\ Len(vl.input) > 1
    /\ vl.input[1][1] > vl.input[2][1]
    /\ \E i \in 1..Len(vl.input) : vl.input[i][2].start[2] > vl.input[i][2].end[2]

(***************************************************************************)
(* Claims on the editing of the calibration set (specification Spec)       *)
(***************************************************************************)

\* C15: a committed line is immutable and goes only by "discard all lines":
\* every other step keeps each committed entry with its wavelength, start
\* and end, so the number of committed lines never decreases.
C15_CommittedLineImmutable ==
    [][cal_ret'.op # "discard_all_lines"
          => /\ Len(lines') >= Len(lines)
             /\ \A i \in 1..Len(lines) :
                   \E j \in 1..Len(lines') : lines'[j] = lines[i]]_vars

\* C16: end_line(point) with a pending start P sets current_line to the
\* line (P, point) and clears the pending start; with no pending start it
\* changes neither lines, start, current_line nor the fitted model.
C16_EndLineCompletesOrNoOp ==
    [][cal_ret'.op = "end_line"
          => IF start # None
             THEN /\ current_line' = Some(Line(start[1], cal_ret'.args[1]))
                  /\ start' = None
                  /\ UNCHANGED <<lines, spectral>>
             ELSE UNCHANGED <<lines, start, current_line, spectral>>]_vars

\* C16 witness: end_line has completed the pending line
C16_EndLineCompletesOrNoOpWitness ==
    /\ cal_ret.op = "end_line"
    /\ start = None
    /\ current_line # None
    /\ current_line[1].end = cal_ret.args[1]

\* C17: committing a wavelength appends exactly one entry (wavelength,
\* current_line) at the end of the set and clears current_line; discarding
\* the line clears current_line and leaves the set unchanged; committing
\* with no completed line leaves the set unchanged.  The entries committed
\* before keep their content and order.
C17_CommitAppendsOne ==
    [][/\ cal_ret'.op = "add_new_wavelength"
            => /\ current_line' = None
               /\ lines' = IF current_line # None
                           THEN Append(lines, <<cal_ret'.args[1], current_line[1]>>)
                           ELSE lines
       /\ cal_ret'.op = "discard_line"
            => (current_line' = None /\ lines' = lines)]_vars

\* C17 witness: a second line has been committed behind the first one
C17_CommitAppendsOneWitness ==
    /\ cal_ret.op = "add_new_wavelength"
    /\ Len(lines) = 2
    /\ lines[2][1] = cal_ret.args[1]
    /\ lines[1][1] # lines[2][1]
    /\ current_line = None

\* C18: "discard all lines" leaves no committed line and no pending line
\* state: lines is empty, start is None and current_line is None, from any
\* prior state.
C18_ClearLeavesNothing ==
    cal_ret.op = "discard_all_lines" =>
        (lines = <<>> /\ start = None /\ current_line = None)

\* C18 witness: the set has been cleared while a fitted model existed
C18_ClearLeavesNothingWitness ==
    /\ cal_ret.op = "discard_all_lines"
    /\ lines = <<>>
    /\ start = None
    /\ current_line = None
    /\ spectral # None

\* the spectrographs of a Vec are pairwise compatible
pairwise_compatible(graphs) ==
    \A i, j \in 1..Len(graphs) : compare(graphs[i], graphs[j])

\* the sum of the i-th values of the first n spectrographs, added in the
\* order of the Vec
RECURSIVE sum_at(_, _, _)
sum_at(graphs, i, n) ==
    IF n = 1 THEN graphs[1].values[i]
    ELSE fadd(sum_at(graphs, i, n - 1), graphs[n].values[i])

\* the result keeps start/stop/step and the number of values, and its i-th
\* value is the sum of the inputs' i-th values multiplied by 1/n
scaled_sum(graphs, result) ==
    /\ compare(result, graphs[1])
    /\ Len(result.values) = Len(graphs[1].values)
    /\ \A i \in 1..Len(result.values) :
          result.values[i] =
              fmul(sum_at(graphs, i, Len(graphs)),
                   fdiv(Fin(Unit), Fin(Len(graphs) * Unit)))

\* every spectrograph of the Vec is the first one
copies(graphs) == \A i \in 1..Len(graphs) : graphs[i] = graphs[1]

\* the rounding of 1/n and of the product: what n copies of x may lose
rounding(n, x) == (n * x) \div Unit + 1

C20_ExportedTable ==
    (sg.op \in {"write_to_csv", "RelativeSpectrum::write_to_csv"}
     /\ sg.ret.k = "ok")
        => LET self == sg.args[1]
               table == sg.ret.v
           IN  /\ table.keys[1] = "wavelengths [nm]"
               /\ Len(table.rows) = Len(self.values)
               /\ \A r \in 1..Len(table.rows) :
                     /\ Len(table.rows[r]) = 2
                     /\ table.rows[r][1] =
                          Fin((self.start + (r - 1) * self.step) * Unit)
                     /\ table.rows[r][2] = self.values[r]

\* C20 witness: a spectrograph of three values and a relative spectrum of
\* three values have been exported
C20_ExportedTableWitness ==
    /\ sg.op = "RelativeSpectrum::write_to_csv"
    /\ sg.ret.k = "ok"
    /\ Len(sg.ret.v.rows) = 3
    /\ sg.ret.v.rows[3][1] # sg.ret.v.rows[3][2]

(***************************************************************************)
(* Claims on the optimizer, the views and the camera                       *)
(***************************************************************************)

\* C21: warm start of the line search: the first candidate alpha of an
\* iteration is the alpha accepted in the iteration before (the first
\* iteration starts from initial_step_size), within an iteration alpha
\* only changes by multiplication with tau, and the accepted step sizes
\* are non-increasing and never exceed initial_step_size.
C21_WarmStart ==
    [][/\ (sm.pc = "for" /\ sm'.pc = "loop")
            => /\ sm'.current_alpha = sm.last_step_size
               /\ sm.i = 0 => sm'.current_alpha = sm.initial_step_size
       /\ (sm.pc = "loop" /\ sm'.pc = "loop")
            => sm'.current_alpha = fmul(sm.current_alpha, CtlTau)
       /\ (sm.pc = "loop" /\ sm'.pc = "for")
            => /\ sm'.last_step_size = sm.current_alpha
               /\ sm'.last_step_size.v <= sm.last_step_size.v
               /\ sm'.last_step_size.v <= sm.initial_step_size.v]_vars

\* C21 witness: the second iteration has accepted a step smaller than the
\* one the first iteration accepted, itself smaller than the initial one
C21_WarmStartWitness ==
    /\ sm.pc = "for"
    /\ sm.i = 2
    /\ sm.last_step_size.v < sm.initial_step_size.v
    /\ sm.last_step_size.v > 0

\* C24: search_minimum never increases the cost: in every iteration the
\* cost at the parameters after the update is less than or equal to the
\* cost at the parameters before it.
C24_CostNeverIncreases ==
    [][(sm.pc = "loop" /\ sm'.pc = "for")
          => fge(cost(sm.data, sm.parameters), cost(sm.data, sm'.parameters))]_vars

\* C22: average_spectrograph is never called with an empty list: in every
\* frame of the spectrograph view, with any take_average of the slider and
\* also when nothing was pushed, the buffer handed to average_spectrograph
\* holds at least one spectrograph, so graphs[0] cannot panic.
C22_AverageBufferNonEmpty ==
    sv.op = "display" =>
        /\ sv.averaged # None => sv.averaged[1] >= 1
        /\ sv.panic # "graphs[0]"

\* C28: in the spectrograph view relative = true implies that a reference
\* exists and is compatible with the current spectrograph (same start,
\* stop and step, same number of values), and the assertions of
\* RelativeSpectrum::new and AbsSpectrograph::add never fail.
C28_RelativeHasCompatibleReference ==
    sv.op = "display" =>
        /\ sv.self.relative =>
              /\ sv.self.reference # None
              /\ sv.self.current # None
              /\ compare(sv.self.current[1], sv.self.reference[1])
              /\ Len(sv.self.current[1].values) = Len(sv.self.reference[1].values)
        /\ sv.panic \notin {"RelativeSpectrum::new", "AbsSpectrograph::add"}
        /\ \A i, j \in 1..Len(sv.self.spec_buf) :
              compare(sv.self.spec_buf[i], sv.self.spec_buf[j])

\* C28 witness: a relative spectrum of an average of two frames against a
\* reference taken earlier has been saved
C28_RelativeHasCompatibleReferenceWitness ==
    /\ sv.op = "display"
    /\ sv.self.relative
    /\ sv.self.reference # None
    /\ sv.self.current # sv.self.reference
    /\ sv.averaged = Some(2)
    /\ sv.saved = "relative"

\* C23: in the tracer the recorded series stay aligned: at the end of every
\* frame while recording, and whenever save_current runs, time_s is as long
\* as abs_values of every tracer, so every column of the saved table has
\* the same number of rows, and sample i of each tracer is paired with the
\* time of the frame in which it was taken.
C23_SeriesAligned ==
    tr.op = "display" =>
        /\ tr.self.record =>
              \A n \in 1..Len(tr.self.tracers) :
                  LET abs_values == tr.self.tracers[n].abs_values IN
                  /\ Len(abs_values) = Len(tr.self.time_s)
                  /\ \A i \in 1..Len(abs_values) :
                        i <= Len(tr.self.time_s)
                          => tr.self.time_s[i] = abs_values[i] - tr.self.start_inst[1]
        /\ tr.saved # None =>
              \A c \in 1..Len(tr.saved[1].valss) :
                  Len(tr.saved[1].valss[c]) = Len(tr.saved[1].valss[1])

\* C30: in the camera module an initialised camera implies a non-empty
\* device list: after any sequence of "get cameras", "initialise"
\* (successful or failed) and "reset camera", inner.is_some() implies that
\* nodes is not empty, so the branch marked unreachable!() is never taken.
C30_InitialisedImpliesNodes ==
    cm.op # "idle" =>
        /\ cm.self.inner # None => cm.self.nodes # <<>>
        /\ cm.panic # "unreachable!()"

\* C30 witness: the second of two listed cameras has been initialised and
\* its stream opened in the same frame
C30_InitialisedImpliesNodesWitness ==
    /\ cm.op = "initialise"
    /\ cm.self.inner # None
    /\ Len(cm.self.nodes) = 2
    /\ cm.self.stream
    /\ cm.panic = "none"

\* the sequences holding the entries of ls in any order of commitment
orders(ls) ==
    {[i \in 1..Len(ls) |-> ls[f[i]]] :
       f \in {g \in [1..Len(ls) -> 1..Len(ls)] :
                \A i, j \in 1..Len(ls) : i # j => g[i] # g[j]}}

\* C25: the outcome of validate() does not depend on the order in which
\* the lines were committed: two calibration sets holding the same entries
\* in different insertion orders, duplicate wavelengths included, get the
\* same boolean.
C25_OrderIndependent ==
    vl.op = "validate" =>
        \A ls \in orders(vl.input) :
            vl.ret = IF vl.module = "calib.rs"
                     THEN Calibration_validate(ls, vl.horizontal_lines)
                     ELSE validate(ls)

\* C27: get_lines(start, stop, step) terminates and returns for every
\* input: the capacity computed as (stop - start) / step never makes the
\* allocation fail, and every turn of the sampling loop brings current_wl
\* closer to stop, so that the loop ends after finitely many turns, also
\* for step = 0, for step < 0 with start < stop and for a step too small to
\* change current_wl.
C27_GetLinesTerminates ==
    /\ gl.pc # "panicked"
    /\ (gl.pc = "while" /\ gl.current_wl < gl.stop)
          => wl_add(gl.current_wl, gl.step) > gl.current_wl

\* C29: the lazy-fit unwrap is safe: whenever get_line or get_lines reaches
\* self.spectral.as_ref().unwrap(), spectral is Some: a generate_regression
\* that returned Some(()) has stored a model, and a None return leaves the
\* function before the unwrap, after any sequence of line edits, "generate
\* regression" and "delete regression".
C29_LazyFitUnwrapSafe ==
    cal_ret.op \in {"get_line", "get_lines"} =>
        /\ ~cal_ret.panic
        /\ cal_ret.ret # None => spectral # None
        /\ (cal_ret.ret = None /\ ~hung) => spectral = None

\* C29 witness: get_line has reached the unwrap with a stored model and
\* returned a line while a generated line is shown
C29_LazyFitUnwrapSafeWitness ==
    /\ cal_ret.op = "get_line"
    /\ cal_ret.ret # None
    /\ ~cal_ret.panic
    /\ spectral # None
    /\ show_generated # None

====
